---- MODULE Spec2Model ----
(***************************************************************************)
(* The object stack of src/obstack.c: the control block (struct obstack), *)
(* the chunk list (struct _obstack_chunk), the growth macros,             *)
(* _obstack_newchunk, obstack_finish and obstack_free / _obstack_free,    *)
(* the queries, obstack_copy and obstack_printf, over a byte-addressed    *)
(* memory and a backing allocator that may place a chunk anywhere or      *)
(* return NULL.                                                           *)
(***************************************************************************)
EXTENDS Integers, Sequences, FiniteSets, TLC

VARIABLES
  h,        \* struct obstack: the control block
  chunks,   \* chunk address -> [limit, prev]: the headers of the chunks not released
  allocd,   \* chunk address -> size requested: the blocks the allocator has handed out
  mem,      \* address -> byte: the bytes written in the blocks handed out
  objs,     \* history: the finalized objects not freed, in finalization order
  cur,      \* history: the bytes appended to the growing object since it began
  last,     \* history: the operation that led to this state
  nops      \* history: the number of operations performed

vars == <<h, chunks, allocd, mem, objs, cur, last, nops>>

-----------------------------------------------------------------------------
(* Bounds of the model *)

\* The number of operations after init.
MaxOps == 4

\* One past the highest address the allocator hands out.
HeapTop == 2048

\* The number of operations of a run with lengths near the largest size.
MaxHugeOps == 2

-----------------------------------------------------------------------------
(* Program constants *)

NULL == 0

\* offsetof (struct _obstack_chunk, contents): two pointers of 8 bytes.
ContentsOffset == 16

\* sizeof (void *) and sizeof (int), the amounts of obstack_ptr_grow and obstack_int_grow.
SizeofPtr == 8
SizeofInt == 4

\* The headroom _obstack_newchunk adds to a new chunk.
Headroom == 100

\* DEFAULT_ALIGNMENT and DEFAULT_ROUNDING: those of long double, 16 bytes.
DefaultAlignment == 16
DefaultRounding == 16

\* The number of values of size_t; sizes are taken modulo it.
SizeMod == 65536

\* sizeof buf in obstack_printf and obstack_vprintf.
BufSize == 1024

\* The value of a byte that was never written.
Garbage == 0 - 1

-----------------------------------------------------------------------------
(* Inputs *)

\* The chunk sizes given to _obstack_begin that hold the header and the
\* aligned start of the contents: 32 ends on an aligned address, 37 does not.
InitSizes == {32, 37}

\* A chunk size that holds the header but not always the aligned start.
SmallSizes == {20}

\* The alignments given to _obstack_begin; 0 selects DEFAULT_ALIGNMENT.
Alignments == {0, 8}

\* The lengths given to the growth operations.
\* 65535 makes the size computation of _obstack_newchunk overflow.
RoomLens == {24, 65535}
BlankLens == {16}
GrowLens == {120}
CopyLens == {120}

\* The lengths of the texts formatted: one fits the buffer with its
\* terminating byte, one fills it without, one is longer.
PrintfLens == {5, 1024, 1030}

\* The values a byte past the end of the buffer may have.
StackBytes == {0, 255}
Grow0Lens == {19}

\* The addresses at which the allocator may place a block, besides right
\* after a block it has handed out: one is 8 modulo 16, one is 0 modulo 16.
Slots == {8, 1024}

\* Lengths near the largest size: with 65500 the sum of the length and the
\* alignment mask is a size and the headroom added to it overflows; an
\* object of 58200 bytes fits a chunk, and a growth of it overflows likewise.
HugeRoomLens == {200, 65500}
HugeBlankLens == {58200}

-----------------------------------------------------------------------------
(* Alignment *)

\* X & ~A, for A + 1 a power of two.
AndNot(X, A) == X - (X % (A + 1))

BPTR_ALIGN(B, P, A) == B + AndNot(P - B + A, A)

\* ptrdiff_t is as wide as a pointer: the alignment is relative to 0.
PTR_ALIGN(B, P, A) == BPTR_ALIGN(0, P, A)

\* chunk->contents
Contents(c) == c + ContentsOffset

\* __PTR_ALIGN ((char *) chunk, chunk->contents, alignment_mask)
AlignedStart(c, mask) == PTR_ALIGN(c, Contents(c), mask)

-----------------------------------------------------------------------------
(* Memory *)

\* The byte at address a of memory m.
Read(m, a) == IF a \in DOMAIN m THEN m[a] ELSE Garbage

\* The n bytes of memory m from address a on.
ReadBytes(m, a, n) == [i \in 1..n |-> Read(m, a + i - 1)]

\* memory m with the bytes of data stored from address a on.
Store(m, a, data) ==
  LET dst == a..(a + Len(data) - 1)
      val(x) == IF x \in dst THEN data[x - a + 1] ELSE m[x]
      dom == {x \in DOMAIN m \cup dst : val(x) # Garbage}
  IN [x \in dom |-> val(x)]

\* memory m with the n bytes from src on copied to dst on, the two areas
\* disjoint: Store(m, dst, ReadBytes(m, src, n)), computed from the bytes
\* that are not garbage alone.
Copy(m, dst, src, n) ==
  LET kept == {x \in DOMAIN m : x < dst \/ x >= dst + n}
      moved == {x - src + dst : x \in {y \in DOMAIN m : src <= y /\ y < src + n}}
  IN [x \in kept \cup moved |-> IF x \in moved THEN m[x - dst + src] ELSE m[x]]

\* A mutant: the last byte is not copied.
memcpy_OneShort(m, dst, src, n) == Copy(m, dst, src, IF n > 0 THEN n - 1 ELSE 0)

\* memcpy (dst, src, n)
memcpy(m, dst, src, n) == Copy(m, dst, src, n)

\* memory m without the bytes of the block of size bytes at c.
Forget(m, c, size) == [x \in {y \in DOMAIN m : y < c \/ y >= c + size} |-> m[x]]

\* The n bytes a caller passes to its k-th operation: they differ from one
\* position to the next and from one operation to the next, and none is 0.
Data(k, n) == [i \in 1..n |-> 1 + ((k + i) % 3)]

-----------------------------------------------------------------------------
(* The backing allocator *)

\* The block of size bytes at b overlaps no block handed out.
Free(al, b, size) ==
  \A c \in DOMAIN al : b + size <= c \/ c + al[c] <= b

\* The addresses the allocator may return for a request of size bytes:
\* NULL, a slot, or the address right after a block it has handed out,
\* rounded up to the alignment of the chunk header.
ChunkfunResults(al, size) ==
  LET after == {PTR_ALIGN(0, c + al[c], SizeofPtr - 1) : c \in DOMAIN al}
  IN {NULL} \cup {b \in Slots \cup after : b + size <= HeapTop /\ Free(al, b, size)}

\* The address an allocator with room above all it has handed out may
\* return: that after the highest block, rounded up likewise.
Above(al) ==
  LET ends == {c + al[c] : c \in DOMAIN al} \cup Slots
  IN PTR_ALIGN(0, CHOOSE e \in ends : \A x \in ends : x <= e, SizeofPtr - 1)

\* The state the operations of the program act on.
\* freed: the blocks passed to the free function, in order; got: the blocks
\* obtained; handler: the number of calls of obstack_alloc_failed_handler,
\* each of which left non-locally; aborted: abort () was called.
State == [h |-> h, chunks |-> chunks, allocd |-> allocd, mem |-> mem,
          freed |-> <<>>, got |-> <<>>, handler |-> 0, aborted |-> FALSE]

\* call_chunkfun (h, size) returned the block at c.
call_chunkfun(s, c, size) ==
  [s EXCEPT !.allocd = [x \in DOMAIN s.allocd \cup {c} |-> IF x = c THEN size ELSE s.allocd[x]],
            !.got = Append(s.got, c)]

\* A mutant: the free function is not called.
call_freefun_NotCalled(s, c) == s

\* call_freefun (h, old_chunk): the block is returned to the allocator,
\* and its header and bytes are gone.
call_freefun(s, c) ==
  [s EXCEPT !.chunks = [x \in DOMAIN s.chunks \ {c} |-> s.chunks[x]],
            !.allocd = [x \in DOMAIN s.allocd \ {c} |-> s.allocd[x]],
            !.mem = IF c \in DOMAIN s.allocd THEN Forget(s.mem, c, s.allocd[c]) ELSE s.mem,
            !.freed = Append(s.freed, c)]

-----------------------------------------------------------------------------
(* Queries *)

\* obstack_object_size (h)
obstack_object_size(hh) == (hh.next_free - hh.object_base) % SizeMod

\* obstack_room (h)
obstack_room(hh) == (hh.chunk_limit - hh.next_free) % SizeMod

-----------------------------------------------------------------------------
(* _obstack_newchunk *)

NewchunkSum1(obj_size, length) == (obj_size + length) % SizeMod

NewchunkSum2(obj_size, length, mask) == (NewchunkSum1(obj_size, length) + mask) % SizeMod

\* The size of the new chunk.
NewchunkSize(obj_size, length, mask, chunk_size) ==
  LET sum2 == NewchunkSum2(obj_size, length, mask)
      size0 == (sum2 + (obj_size \div 8) + Headroom) % SizeMod
      size1 == IF size0 < sum2 THEN sum2 ELSE size0
  IN IF size1 < chunk_size THEN chunk_size ELSE size1

\* The condition under which the allocator is called.
NewchunkCalls(obj_size, length, mask) ==
  /\ obj_size <= NewchunkSum1(obj_size, length)
  /\ NewchunkSum1(obj_size, length) <= NewchunkSum2(obj_size, length, mask)

\* A mutant: the old chunk is never released.
NewchunkFreesOld_Never(maybe_empty_object, object_base, old_chunk, mask) == FALSE

\* A mutant: the old chunk is released whether or not it may hold an empty object.
NewchunkFreesOld_IgnoringEmpty(maybe_empty_object, object_base, old_chunk, mask) ==
  object_base = AlignedStart(old_chunk, mask)

\* The condition under which the old chunk is unlinked and released.
NewchunkFreesOld(maybe_empty_object, object_base, old_chunk, mask) ==
  /\ ~maybe_empty_object
  /\ object_base = AlignedStart(old_chunk, mask)

\* A mutant: the flag is cleared before the allocation is tested.
AllocFailed_FlagCleared(s) ==
  [s EXCEPT !.handler = @ + 1, !.h.maybe_empty_object = FALSE]

\* (*obstack_alloc_failed_handler) (), where _obstack_newchunk calls it: the
\* handler does not return, and the operation under way is abandoned.
AllocFailed(s) == [s EXCEPT !.handler = @ + 1]

\* The size _obstack_newchunk (h, length) asks of the allocator in state s.
RequestSize(s, length) ==
  NewchunkSize(obstack_object_size(s.h), length, s.h.alignment_mask, s.h.chunk_size)

\* _obstack_newchunk (h, length), the allocator returning a when called.
_obstack_newchunk(s, length, a) ==
  LET old_chunk == s.h.chunk
      obj_size == obstack_object_size(s.h)
      mask == s.h.alignment_mask
      new_size == RequestSize(s, length)
      new_chunk == IF NewchunkCalls(obj_size, length, mask) THEN a ELSE NULL
  IN IF new_chunk = NULL
     THEN AllocFailed(s)
     ELSE LET s1 == call_chunkfun(s, new_chunk, new_size)
              object_base == AlignedStart(new_chunk, mask)
              frees == NewchunkFreesOld(s.h.maybe_empty_object, s.h.object_base, old_chunk, mask)
              header == [limit |-> new_chunk + new_size,
                         prev |-> IF frees THEN s.chunks[old_chunk].prev ELSE old_chunk]
              s2 == [s1 EXCEPT
                       !.chunks = [x \in DOMAIN s.chunks \cup {new_chunk} |->
                                     IF x = new_chunk THEN header ELSE s.chunks[x]],
                       !.mem = memcpy(s.mem, object_base, s.h.object_base, obj_size),
                       !.h = [s.h EXCEPT !.chunk = new_chunk,
                                         !.chunk_limit = new_chunk + new_size,
                                         !.object_base = object_base,
                                         !.next_free = object_base + obj_size,
                                         !.maybe_empty_object = FALSE]]
          IN IF frees THEN call_freefun(s2, old_chunk) ELSE s2

\* obstack_make_room (h, length), the allocator returning a when called.
obstack_make_room(s, length, a) ==
  IF obstack_room(s.h) < length THEN _obstack_newchunk(s, length, a) ELSE s

\* What the allocator may return to the call, if any, that a growth of
\* length bytes makes in state s.
Returns(s, length) ==
  IF /\ obstack_room(s.h) < length
     /\ NewchunkCalls(obstack_object_size(s.h), length, s.h.alignment_mask)
  THEN ChunkfunResults(s.allocd, RequestSize(s, length))
  ELSE {NULL}

\* The same, of an allocator that has room for a block of any size and
\* does not fail.
HugeReturns(s, length) ==
  IF /\ obstack_room(s.h) < length
     /\ NewchunkCalls(obstack_object_size(s.h), length, s.h.alignment_mask)
  THEN {Above(s.allocd)}
  ELSE {NULL}

\* The bytes of data are stored at next_free, which advances by n.
Put(s, data, n) ==
  [s EXCEPT !.mem = Store(s.mem, s.h.next_free, data),
            !.h.next_free = s.h.next_free + n]

\* A growth operation: room for length bytes is made, then, unless the
\* failure handler left, data is stored and next_free advances by n.
Growth(s, length, data, n, a) ==
  LET s1 == obstack_make_room(s, length, a)
  IN IF s1.handler > 0 THEN s1 ELSE Put(s1, data, n)

obstack_blank(s, n, a) == Growth(s, n, <<>>, n, a)

obstack_1grow(s, datum, a) == Growth(s, 1, <<datum>>, 1, a)

obstack_grow(s, where, a) == Growth(s, Len(where), where, Len(where), a)

\* A mutant: the byte after the bytes appended is counted but not written.
obstack_grow0_NoZero(s, where, a) ==
  Growth(s, Len(where) + 1, where, Len(where) + 1, a)

obstack_grow0(s, where, a) ==
  Growth(s, Len(where) + 1, Append(where, 0), Len(where) + 1, a)

\* datum: the bytes of the pointer.
obstack_ptr_grow(s, datum, a) == Growth(s, SizeofPtr, datum, SizeofPtr, a)

\* datum: the bytes of the int.
obstack_int_grow(s, datum, a) == Growth(s, SizeofInt, datum, SizeofInt, a)

-----------------------------------------------------------------------------
(* obstack_finish *)

\* A mutant: finalizing an empty object does not set the flag.
FinishMaybeEmpty_NotSet(maybe_empty_object, object_base, next_free) ==
  maybe_empty_object

\* maybe_empty_object after obstack_finish.
FinishMaybeEmpty(maybe_empty_object, object_base, next_free) ==
  (next_free = object_base) \/ maybe_empty_object

\* A mutant: next_free is aligned and not compared with chunk_limit.
FinishNextFree_NoClamp(object_base, next_free, mask, chunk, chunk_limit) ==
  PTR_ALIGN(object_base, next_free, mask)

\* next_free after obstack_finish: aligned, and no further than chunk_limit.
FinishNextFree(object_base, next_free, mask, chunk, chunk_limit) ==
  LET aligned == PTR_ALIGN(object_base, next_free, mask)
  IN IF (aligned - chunk) % SizeMod > (chunk_limit - chunk) % SizeMod
     THEN chunk_limit ELSE aligned

\* A mutant: the room left in the chunk is given up.
obstack_finish_Trimming(s) ==
  LET nf == FinishNextFree(s.h.object_base, s.h.next_free, s.h.alignment_mask,
                           s.h.chunk, s.h.chunk_limit)
  IN [s EXCEPT !.h.maybe_empty_object =
                 FinishMaybeEmpty(@, s.h.object_base, s.h.next_free),
               !.h.next_free = nf,
               !.h.object_base = nf,
               !.h.chunk_limit = nf]

\* A mutant: the base of the next object is not moved past the object.
obstack_finish_BaseKept(s) ==
  LET nf == FinishNextFree(s.h.object_base, s.h.next_free, s.h.alignment_mask,
                           s.h.chunk, s.h.chunk_limit)
  IN [s EXCEPT !.h.maybe_empty_object =
                 FinishMaybeEmpty(@, s.h.object_base, s.h.next_free),
               !.h.next_free = nf]

obstack_finish(s) ==
  LET nf == FinishNextFree(s.h.object_base, s.h.next_free, s.h.alignment_mask,
                           s.h.chunk, s.h.chunk_limit)
  IN [s EXCEPT !.h.maybe_empty_object =
                 FinishMaybeEmpty(@, s.h.object_base, s.h.next_free),
               !.h.next_free = nf,
               !.h.object_base = nf]

\* obstack_copy (h, where, length): obstack_finish after obstack_grow,
\* unless the failure handler left.
obstack_copy(s, where, a) ==
  LET s1 == obstack_grow(s, where, a)
  IN IF s1.handler > 0 THEN s1 ELSE obstack_finish(s1)

\* obstack_copy0 (h, where, length)
obstack_copy0(s, where, a) ==
  LET s1 == obstack_grow0(s, where, a)
  IN IF s1.handler > 0 THEN s1 ELSE obstack_finish(s1)

-----------------------------------------------------------------------------
(* obstack_printf, obstack_vprintf *)

\* vsnprintf (buf, size, fmt, ap), text being the whole formatted output:
\* the bytes it writes to buf, and the length it returns.
vsnprintf(text, size) ==
  LET n == IF Len(text) < size THEN Len(text) ELSE size - 1
  IN [buf |-> Append(SubSeq(text, 1, n), 0), len |-> Len(text)]

\* The len bytes read from the address of buf on; those past the bytes
\* vsnprintf wrote are not of buf, and have the value junk.
ReadBuf(buf, len, junk) ==
  [i \in 1..len |-> IF i <= Len(buf) THEN buf[i] ELSE junk]

\* The length obstack_printf passes to obstack_grow and returns.
PrintfLen(len) == len

\* obstack_printf (obstack, fmt, ...): the state, the value returned and
\* the number of bytes read from buf on.
obstack_printf(s, text, junk, a) ==
  LET f == vsnprintf(text, BufSize)
      len == PrintfLen(f.len)
  IN [s |-> obstack_grow(s, ReadBuf(f.buf, len, junk), a),
      ret |-> len, read |-> len]

\* obstack_vprintf (obstack, fmt, ap)
obstack_vprintf(s, text, junk, a) ==
  LET f == vsnprintf(text, BufSize)
      len == PrintfLen(f.len)
  IN [s |-> obstack_grow(s, ReadBuf(f.buf, len, junk), a),
      ret |-> len, read |-> len]

-----------------------------------------------------------------------------
(* obstack_free *)

\* A mutant: an address equal to the limit counts as outside the chunk.
NotInChunk_LimitOutside(lp, limit, obj) == lp >= obj \/ limit <= obj

\* A mutant: an address equal to that of the chunk counts as inside it.
NotInChunk_HeaderInside(lp, limit, obj) == lp > obj \/ limit < obj

\* The test of the walk: obj is not in the chunk at lp with that limit.
NotInChunk(lp, limit, obj) == lp >= obj \/ limit < obj

\* A mutant: the walk ends after the first chunk it has released.
FreeWalk_OneChunk(s, lp, obj) ==
  IF lp # NULL /\ NotInChunk(lp, s.chunks[lp].limit, obj)
  THEN [s |-> [call_freefun(s, lp) EXCEPT !.h.maybe_empty_object = TRUE],
        lp |-> s.chunks[lp].prev]
  ELSE [s |-> s, lp |-> lp]

RECURSIVE FreeWalk_FlagKept(_, _, _)
\* A mutant: the walk releases the chunks and leaves maybe_empty_object as it was.
FreeWalk_FlagKept(s, lp, obj) ==
  IF lp # NULL /\ NotInChunk(lp, s.chunks[lp].limit, obj)
  THEN FreeWalk_FlagKept(call_freefun(s, lp), s.chunks[lp].prev, obj)
  ELSE [s |-> s, lp |-> lp]

RECURSIVE FreeWalk(_, _, _)
\* The while loop of _obstack_free from chunk lp on: the state and the chunk it ends at.
FreeWalk(s, lp, obj) ==
  IF lp # NULL /\ NotInChunk(lp, s.chunks[lp].limit, obj)
  THEN FreeWalk([call_freefun(s, lp) EXCEPT !.h.maybe_empty_object = TRUE],
                s.chunks[lp].prev, obj)
  ELSE [s |-> s, lp |-> lp]

\* A mutant: the walk having found no chunk, abort () is not called.
FreeAborts_Never(obj) == FALSE

\* A mutant: the walk having found no chunk, abort () is called for NULL too.
FreeAborts_Always(obj) == TRUE

\* The test for abort () after the walk has found no chunk.
FreeAborts(obj) == obj # NULL

\* A mutant: maybe_empty_object is set whether or not the walk left a chunk.
_obstack_free_FlagSet(s, obj) ==
  LET w == FreeWalk(s, s.h.chunk, obj)
  IN IF w.lp # NULL
     THEN [w.s EXCEPT !.h.object_base = obj,
                      !.h.next_free = obj,
                      !.h.chunk_limit = w.s.chunks[w.lp].limit,
                      !.h.chunk = w.lp,
                      !.h.maybe_empty_object = TRUE]
     ELSE IF FreeAborts(obj) THEN [w.s EXCEPT !.aborted = TRUE] ELSE w.s

_obstack_free(s, obj) ==
  LET w == FreeWalk(s, s.h.chunk, obj)
  IN IF w.lp # NULL
     THEN [w.s EXCEPT !.h.object_base = obj,
                      !.h.next_free = obj,
                      !.h.chunk_limit = w.s.chunks[w.lp].limit,
                      !.h.chunk = w.lp]
     ELSE IF FreeAborts(obj) THEN [w.s EXCEPT !.aborted = TRUE] ELSE w.s

\* A mutant: the upper bound is not tested.
InCurrentChunk_NoUpper(chunk, chunk_limit, obj) == obj > chunk

\* A mutant: an address equal to the limit counts as outside the chunk.
AllocatedNotInChunk_LimitOutside(lp, limit, obj) == lp >= obj \/ limit <= obj

\* The test of the walk of _obstack_allocated_p.
AllocatedNotInChunk(lp, limit, obj) == lp >= obj \/ limit < obj

RECURSIVE AllocatedWalk(_, _, _)
\* The while loop of _obstack_allocated_p from chunk lp on: the chunk it ends at.
AllocatedWalk(s, lp, obj) ==
  IF lp # NULL /\ AllocatedNotInChunk(lp, s.chunks[lp].limit, obj)
  THEN AllocatedWalk(s, s.chunks[lp].prev, obj)
  ELSE lp

\* _obstack_allocated_p (h, obj)
_obstack_allocated_p(s, obj) == AllocatedWalk(s, s.h.chunk, obj) # NULL

\* The test of the macro obstack_free for its inline branch.
InCurrentChunk(chunk, chunk_limit, obj) == obj > chunk /\ obj < chunk_limit

\* The macro obstack_free (h, obj).
obstack_free(s, obj) ==
  IF InCurrentChunk(s.h.chunk, s.h.chunk_limit, obj)
  THEN [s EXCEPT !.h.next_free = obj, !.h.object_base = obj]
  ELSE _obstack_free(s, obj)

-----------------------------------------------------------------------------
(* _obstack_memory_used, obstack_empty_p *)

\* A mutant: the header of a chunk is not counted.
ChunkBytes_ContentsOnly(lp, limit) == limit - Contents(lp)

\* lp->limit - (char *) lp
ChunkBytes(lp, limit) == limit - lp

RECURSIVE MemoryUsedFrom(_, _, _)
\* The for loop of _obstack_memory_used from chunk lp on, nbytes so far.
MemoryUsedFrom(s, lp, nbytes) ==
  IF lp # NULL
  THEN MemoryUsedFrom(s, s.chunks[lp].prev,
                      (nbytes + ChunkBytes(lp, s.chunks[lp].limit)) % SizeMod)
  ELSE nbytes

\* _obstack_memory_used (h)
_obstack_memory_used(s) == MemoryUsedFrom(s, s.h.chunk, 0)

\* obstack_empty_p (h)
obstack_empty_p(s) ==
  /\ s.chunks[s.h.chunk].prev = NULL
  /\ s.h.next_free = AlignedStart(s.h.chunk, s.h.alignment_mask)

\* obstack_base (h)
obstack_base(s) == s.h.object_base

\* obstack_next_free (h)
obstack_next_free(s) == s.h.next_free

-----------------------------------------------------------------------------
(* _obstack_begin *)

\* The chunk size _obstack_begin_worker uses for a given size.
BeginSize(size) ==
  IF size = 0
  THEN LET r == DefaultRounding - 1
           extra == AndNot(AndNot(12 + r, r) + 4 + r, r)
       IN 4096 - extra
  ELSE size

\* The alignment _obstack_begin_worker uses for a given alignment.
BeginAlignment(alignment) == IF alignment = 0 THEN DefaultAlignment ELSE alignment

\* The control block and the first chunk after _obstack_begin (h, size,
\* alignment, ...), the allocator having returned chunk.
Begin(size, alignment, chunk) ==
  LET mask == BeginAlignment(alignment) - 1
      start == AlignedStart(chunk, mask)
  IN [h |-> [chunk_size |-> BeginSize(size),
             alignment_mask |-> mask,
             chunk |-> chunk,
             object_base |-> start,
             next_free |-> start,
             chunk_limit |-> chunk + BeginSize(size),
             maybe_empty_object |-> FALSE],
      chunks |-> (chunk :> [limit |-> chunk + BeginSize(size), prev |-> NULL]),
      allocd |-> (chunk :> BeginSize(size)),
      mem |-> <<>>,
      freed |-> <<>>, got |-> <<chunk>>, handler |-> 0, aborted |-> FALSE]

\* _obstack_begin (h, size, alignment, ...) on a control block used before,
\* the allocator having returned chunk: the blocks handed out before and
\* not released stay handed out.
_obstack_begin(s, size, alignment, chunk) ==
  LET b == Begin(size, alignment, chunk)
  IN [b EXCEPT !.chunks = [x \in DOMAIN s.chunks \cup {chunk} |->
                             IF x = chunk THEN b.chunks[chunk] ELSE s.chunks[x]],
               !.allocd = [x \in DOMAIN s.allocd \cup {chunk} |->
                             IF x = chunk THEN b.allocd[chunk] ELSE s.allocd[x]],
               !.mem = s.mem]

-----------------------------------------------------------------------------
(* The operations as actions *)

RECURSIVE ListFrom(_, _, _)
\* The chunks linked from lp through prev in the headers ch, newest first
\* (at most n of them).
ListFrom(ch, lp, n) ==
  IF lp = NULL \/ lp \notin DOMAIN ch \/ n = 0
  THEN <<>>
  ELSE <<lp>> \o ListFrom(ch, ch[lp].prev, n - 1)

\* The chunk list of the stack.
ChunkList == ListFrom(chunks, h.chunk, Cardinality(DOMAIN chunks))

\* The record of an operation that led from the current state to s: what
\* it was given, what it did to the allocator, and the stack before it.
Done(op, arg, s) ==
  [op |-> op, arg |-> arg, handler |-> s.handler, aborted |-> s.aborted,
   freed |-> s.freed, got |-> s.got, h |-> h, objs |-> objs, list |-> ChunkList]

\* The step of an operation that leads to s, with the history it leaves.
\* After abort () the program performs no operation, and after
\* obstack_free (h, NULL) none but _obstack_begin.
Step(op, arg, s, newobjs, newcur) ==
  /\ nops < MaxOps
  /\ ~last.aborted
  /\ last.op = "free_null" => op = "init"
  /\ h' = s.h
  /\ chunks' = s.chunks
  /\ allocd' = s.allocd
  /\ mem' = s.mem
  /\ objs' = newobjs
  /\ cur' = newcur
  /\ last' = Done(op, arg, s)
  /\ nops' = nops + 1

\* The step of a growth operation that leads to s and appends bytes.
GrowthStep(op, arg, s, bytes) ==
  Step(op, arg, s, objs, IF s.handler > 0 THEN cur ELSE cur \o bytes)

InitFrom(sizes) ==
  \E size \in sizes, alignment \in Alignments :
    \E c \in ChunkfunResults(<<>>, BeginSize(size)) \ {NULL} :
      LET s == Begin(size, alignment, c)
      IN /\ h = s.h
         /\ chunks = s.chunks
         /\ allocd = s.allocd
         /\ mem = s.mem
         /\ objs = <<>>
         /\ cur = <<>>
         /\ last = [op |-> "init", arg |-> size, handler |-> 0, aborted |-> FALSE,
                    freed |-> <<>>, got |-> s.got, h |-> s.h, objs |-> <<>>,
                    list |-> <<>>]
         /\ nops = 0

Init == InitFrom(InitSizes)

InitAnySize == InitFrom(InitSizes \cup SmallSizes)

DoMakeRoom ==
  \E n \in RoomLens : \E a \in Returns(State, n) :
    GrowthStep("make_room", n, obstack_make_room(State, n, a), <<>>)

DoBlank ==
  \E n \in BlankLens : \E a \in Returns(State, n) :
    LET s1 == obstack_make_room(State, n, a)
    IN GrowthStep("blank", n, obstack_blank(State, n, a),
                  ReadBytes(s1.mem, s1.h.next_free, n))

Do1Grow ==
  \E a \in Returns(State, 1) :
    GrowthStep("1grow", 1, obstack_1grow(State, Data(nops, 1)[1], a), Data(nops, 1))

DoGrow ==
  \E n \in GrowLens : \E a \in Returns(State, n) :
    GrowthStep("grow", n, obstack_grow(State, Data(nops, n), a), Data(nops, n))

DoGrow0 ==
  \E n \in Grow0Lens : \E a \in Returns(State, n + 1) :
    GrowthStep("grow0", n, obstack_grow0(State, Data(nops, n), a),
               Append(Data(nops, n), 0))

\* obstack_finish (h): the address returned is that of a new finalized object.
DoFinish ==
  Step("finish", h.object_base, obstack_finish(State),
       Append(objs, [addr |-> h.object_base,
                     len |-> obstack_object_size(h),
                     bytes |-> ReadBytes(mem, h.object_base, obstack_object_size(h)),
                     chunk |-> h.chunk]),
       <<>>)

\* obstack_free (h, obj), obj the address of a finalized object not freed:
\* the objects finalized from it on are freed.
DoFree ==
  \E i \in 1..Len(objs) :
    Step("free", objs[i].addr, obstack_free(State, objs[i].addr),
         SubSeq(objs, 1, i - 1), <<>>)

Next ==
  \/ DoMakeRoom
  \/ DoBlank
  \/ Do1Grow
  \/ DoGrow
  \/ DoGrow0
  \/ DoFinish
  \/ DoFree

Spec == Init /\ [][Next]_vars

SpecAnySize == InitAnySize /\ [][Next]_vars

\* The step of a growth operation of a run with lengths near the largest
\* size, the allocator having room for a block of any size.
HugeStep(op, arg, s, bytes) ==
  /\ nops < MaxHugeOps
  /\ GrowthStep(op, arg, s, bytes)

HugeMakeRoom ==
  \E n \in HugeRoomLens : \E a \in HugeReturns(State, n) :
    HugeStep("make_room", n, obstack_make_room(State, n, a), <<>>)

HugeBlank ==
  \E n \in HugeBlankLens : \E a \in HugeReturns(State, n) :
    LET s1 == obstack_make_room(State, n, a)
    IN HugeStep("blank", n, obstack_blank(State, n, a),
                  ReadBytes(s1.mem, s1.h.next_free, n))

Huge1Grow ==
  \E a \in HugeReturns(State, 1) :
    HugeStep("1grow", 1, obstack_1grow(State, Data(nops, 1)[1], a), Data(nops, 1))

HugeGrow ==
  \E n \in GrowLens : \E a \in HugeReturns(State, n) :
    HugeStep("grow", n, obstack_grow(State, Data(nops, n), a), Data(nops, n))

HugeGrow0 ==
  \E n \in Grow0Lens : \E a \in HugeReturns(State, n + 1) :
    HugeStep("grow0", n, obstack_grow0(State, Data(nops, n), a),
               Append(Data(nops, n), 0))

HugePtrGrow ==
  \E a \in HugeReturns(State, SizeofPtr) :
    HugeStep("ptr_grow", SizeofPtr,
               obstack_ptr_grow(State, Data(nops, SizeofPtr), a), Data(nops, SizeofPtr))

HugeIntGrow ==
  \E a \in HugeReturns(State, SizeofInt) :
    HugeStep("int_grow", SizeofInt,
               obstack_int_grow(State, Data(nops, SizeofInt), a), Data(nops, SizeofInt))

NextHuge ==
  \/ HugeMakeRoom
  \/ HugeBlank
  \/ Huge1Grow
  \/ HugeGrow
  \/ HugeGrow0
  \/ HugePtrGrow
  \/ HugeIntGrow

SpecHuge == Init /\ [][NextHuge]_vars

\* The finalized object that obstack_finish makes of the growing object of s.
Finalized(s) ==
  [addr |-> s.h.object_base,
   len |-> obstack_object_size(s.h),
   bytes |-> ReadBytes(s.mem, s.h.object_base, obstack_object_size(s.h)),
   chunk |-> s.h.chunk]

\* obstack_copy (h, where, n): the address returned is that of a new
\* finalized object, which holds the bytes grown before as well.
DoCopy ==
  \E n \in CopyLens : \E a \in Returns(State, n) :
    LET s1 == obstack_grow(State, Data(nops, n), a)
        s2 == obstack_copy(State, Data(nops, n), a)
    IN Step("copy", n, s2,
            IF s2.handler > 0 THEN objs ELSE Append(objs, Finalized(s1)),
            IF s2.handler > 0 THEN cur ELSE <<>>)

\* obstack_copy0 (h, where, n)
DoCopy0 ==
  \E n \in Grow0Lens : \E a \in Returns(State, n + 1) :
    LET s1 == obstack_grow0(State, Data(nops, n), a)
        s2 == obstack_copy0(State, Data(nops, n), a)
    IN Step("copy0", n, s2,
            IF s2.handler > 0 THEN objs ELSE Append(objs, Finalized(s1)),
            IF s2.handler > 0 THEN cur ELSE <<>>)

\* obstack_free (h, NULL): every finalized object is freed.
DoFreeNull ==
  Step("free_null", NULL, obstack_free(State, NULL), <<>>, <<>>)

\* _obstack_begin (h, size, alignment, ...) after obstack_free (h, NULL),
\* with the chunk size and the alignment of the control block.
DoBegin ==
  /\ last.op = "free_null"
  /\ \E c \in ChunkfunResults(allocd, h.chunk_size) \ {NULL} :
       Step("init", h.chunk_size,
            _obstack_begin(State, h.chunk_size, h.alignment_mask + 1, c),
            <<>>, <<>>)

\* The addresses next to the bounds of the current chunk.
Probes == {h.chunk - 1, h.chunk, h.chunk_limit, h.chunk_limit + 1}

\* obstack_free (h, obj), obj any address but NULL: the finalized objects
\* of the chunks released are freed, and those at or above obj of the
\* chunk it is found in.
DoFreeAny ==
  \E obj \in Probes \ {NULL} :
    LET s == obstack_free(State, obj)
        Kept(o) == /\ o.chunk \in DOMAIN s.chunks
                   /\ o.chunk = s.h.chunk => o.addr < obj
    IN Step("free_any", obj, s,
            IF s.aborted THEN objs ELSE SelectSeq(objs, Kept), <<>>)

\* The queries, each of which returns a value and assigns nothing;
\* obstack_allocated_p is asked of the base of the growing object.
DoQueries ==
  /\ last.op # "queries"
  /\ Step("queries",
          <<obstack_base(State), obstack_next_free(State),
            obstack_object_size(h), obstack_room(h), obstack_empty_p(State),
            _obstack_memory_used(State),
            _obstack_allocated_p(State, h.object_base)>>,
          State, objs, cur)

\* obstack_printf (h, fmt, ...), the formatted output being of n bytes.
DoPrintf ==
  \E n \in PrintfLens, junk \in StackBytes : \E a \in Returns(State, n) :
    LET r == obstack_printf(State, Data(nops, n), junk, a)
    IN GrowthStep("printf", <<n, r.ret, r.read>>, r.s,
                  ReadBytes(r.s.mem, r.s.h.next_free - r.read, r.read))

\* obstack_vprintf (h, fmt, ap)
DoVprintf ==
  \E n \in PrintfLens, junk \in StackBytes : \E a \in Returns(State, n) :
    LET r == obstack_vprintf(State, Data(nops, n), junk, a)
    IN GrowthStep("vprintf", <<n, r.ret, r.read>>, r.s,
                  ReadBytes(r.s.mem, r.s.h.next_free - r.read, r.read))

\* Formatted output appended to objects that are finalized.
NextPrintf ==
  \/ DoPrintf
  \/ DoVprintf
  \/ DoFinish

SpecPrintf == Init /\ [][NextPrintf]_vars

\* The life of a stack: objects copied in and grown, finalized and freed,
\* the stack freed as a whole and begun again.
NextLife ==
  \/ DoCopy
  \/ DoCopy0
  \/ Do1Grow
  \/ DoFinish
  \/ DoFree
  \/ DoFreeNull
  \/ DoBegin

SpecLife == Init /\ [][NextLife]_vars

\* A stack grown and finalized, queried, and freed at any address.
NextProbe ==
  \/ Do1Grow
  \/ DoGrow
  \/ DoFinish
  \/ DoQueries
  \/ DoFreeAny

SpecProbe == Init /\ [][NextProbe]_vars

\* Objects grown by a byte or by many, finalized, and freed.
NextObjects ==
  \/ Do1Grow
  \/ DoGrow
  \/ DoFinish
  \/ DoFree

SpecObjects == Init /\ [][NextObjects]_vars

-----------------------------------------------------------------------------
(* What the claims speak of *)

\* The chunks of the chunk list.
Linked == {ChunkList[i] : i \in 1..Len(ChunkList)}

\* The finalized object o is where it was finalized: its chunk is in the
\* chunk list and was not released, it lies in that chunk, and its bytes
\* are those it had when it was finalized.
Intact(o) ==
  /\ o.chunk \in Linked
  /\ o.chunk \in DOMAIN allocd
  /\ Contents(o.chunk) <= o.addr
  /\ o.addr + o.len <= chunks[o.chunk].limit
  /\ ReadBytes(mem, o.addr, o.len) = o.bytes

\* The finalized object o is no longer reachable: its chunk was released,
\* or it lies at or above the cursor of the current chunk.
Gone(o) ==
  \/ o.chunk \notin DOMAIN allocd
  \/ o.chunk = h.chunk /\ o.addr >= h.object_base

GrowthOps == {"make_room", "blank", "1grow", "grow", "grow0"}

\* The last operation was a growth that moved the growing object to a new chunk.
Migrated == last.op \in GrowthOps /\ last.got # <<>>

-----------------------------------------------------------------------------
(* C1 *)

\* C1: every finalized object that no free has reached is intact: the chunk
\* that holds it is in the chunk list and not released, and its bytes are
\* those it had when finish returned its address, whatever growth,
\* migration or finish came later; this includes the zero-length objects.
C1_Stability == \A i \in 1..Len(objs) : Intact(objs[i])

\* A migration has left behind a chunk that holds a finalized object of
\* some bytes and a zero-length one.
C1_Witness ==
  /\ Migrated
  /\ \E i, j \in 1..Len(objs) :
       /\ objs[i].len > 0 /\ objs[i].chunk # h.chunk
       /\ objs[j].len = 0 /\ objs[j].chunk # h.chunk

-----------------------------------------------------------------------------
(* C2 *)

\* C2: the address of every finalized object, as finish returned it, is a
\* multiple of alignment_mask + 1.
C2_Alignment ==
  \A i \in 1..Len(objs) : objs[i].addr % (h.alignment_mask + 1) = 0

-----------------------------------------------------------------------------
(* C3 *)

\* The place of chunk c in the list of chunks seq (0: not in it).
Place(seq, c) ==
  IF \E i \in 1..Len(seq) : seq[i] = c
  THEN CHOOSE i \in 1..Len(seq) : seq[i] = c
  ELSE 0

\* The object a free was aimed at, in the state that follows the free: the
\* first of the objects that are no longer in objs.
Target == last.objs[Len(objs) + 1]

\* C3: after free (h, p), p the address of a finalized object not freed
\* before: the object base is p and the growing object is empty; every
\* object finalized before it is intact; every object finalized from it on
\* is gone; and the chunks installed after the chunk that holds p, and only
\* they, were passed to the free function, once each, that chunk being the
\* current one now.
C3_BulkFree ==
  last.op = "free" =>
    LET place == Place(last.list, Target.chunk)
    IN /\ ~last.aborted
       /\ h.object_base = last.arg
       /\ obstack_object_size(h) = 0
       /\ \A i \in 1..Len(objs) : Intact(objs[i])
       /\ \A j \in (Len(objs) + 1)..Len(last.objs) : Gone(last.objs[j])
       /\ place > 0
       /\ last.freed = SubSeq(last.list, 1, place - 1)
       /\ \A i \in 1..Len(last.freed) : last.freed[i] \notin DOMAIN allocd
       /\ h.chunk = Target.chunk
       /\ ChunkList = SubSeq(last.list, place, Len(last.list))

\* A free has released a chunk, and with it an object finalized after its target.
C3_Witness ==
  /\ last.op = "free"
  /\ last.freed # <<>>
  /\ Len(last.objs) > Len(objs) + 1

-----------------------------------------------------------------------------
(* C4 *)

\* C4 as claimed: after free (h, p) the object base is p, every object that
\* was finalized at an address at or above p is gone, and every object that
\* was finalized at an address below p is intact.
C4_ByAddress ==
  last.op = "free" =>
    /\ h.object_base = last.arg
    /\ \A j \in 1..Len(last.objs) :
         LET o == last.objs[j]
         IN IF o.addr >= last.arg THEN Gone(o) ELSE Intact(o)

\* C4 as amended: after free (h, p) the object base is p; of the objects of
\* the chunk that holds p, those at or above p are gone and those below p
\* are intact; the objects of the chunks installed later are gone, and
\* those of the chunks installed earlier are intact, whatever their addresses.
C4_ByChunk ==
  last.op = "free" =>
    /\ h.object_base = last.arg
    /\ \A j \in 1..Len(last.objs) :
         LET o == last.objs[j]
             mine == Place(last.list, Target.chunk)
             its == Place(last.list, o.chunk)
         IN /\ mine > 0 /\ its > 0
            /\ IF its = mine
               THEN IF o.addr >= last.arg THEN Gone(o) ELSE Intact(o)
               ELSE IF its < mine THEN Gone(o) ELSE Intact(o)

\* A free has released a chunk that held an object at an address below its target.
C4_Witness ==
  /\ last.op = "free"
  /\ \E j \in 1..Len(last.objs) :
       /\ last.objs[j].addr < last.arg
       /\ last.objs[j].chunk \notin DOMAIN allocd

-----------------------------------------------------------------------------
(* C5 *)

\* The number of bytes a growth operation appends.
Appended(op, arg) ==
  CASE op = "make_room" -> 0
    [] op = "grow0" -> arg + 1
    [] OTHER -> arg

\* C5: the size of the growing object is the number of bytes appended since
\* it began, its bytes are the bytes appended, in order, and a growth
\* operation does not decrease the size: it adds what it appends, or
\* nothing when the failure handler leaves.
C5_SizeAndContents ==
  /\ obstack_object_size(h) = Len(cur)
  /\ ReadBytes(mem, h.object_base, Len(cur)) = cur
  /\ last.op \in GrowthOps =>
       /\ obstack_object_size(h) >= obstack_object_size(last.h)
       /\ obstack_object_size(h) = obstack_object_size(last.h)
            + (IF last.handler > 0 THEN 0 ELSE Appended(last.op, last.arg))

\* A growth has moved an object that had bytes to a new chunk and added to it.
C5_Witness ==
  /\ Migrated
  /\ obstack_object_size(last.h) > 0
  /\ Appended(last.op, last.arg) > 0
  /\ \E i \in 1..Len(cur) : cur[i] # Garbage

-----------------------------------------------------------------------------
(* C6 *)

\* The growth operations, those that assume an alignment included.
RoomOps == GrowthOps \cup {"ptr_grow", "int_grow"}

\* C6: when make_room (h, n) returns, chunk_limit - next_free is at least
\* n; when another growth operation returns, the bytes it appended end no
\* further than chunk_limit, its room check having made room for them.
C6_RoomMade ==
  (last.op \in RoomOps /\ last.handler = 0) =>
    IF last.op = "make_room"
    THEN h.chunk_limit - h.next_free >= last.arg
    ELSE h.next_free <= h.chunk_limit

-----------------------------------------------------------------------------
(* C7 *)

\* C7: at rest, object_base <= next_free <= chunk_limit, chunk_limit is the
\* limit of the current chunk, and object_base lies between the contents
\* and the limit of the current chunk.
C7_CursorInvariant ==
  /\ h.object_base <= h.next_free
  /\ h.next_free <= h.chunk_limit
  /\ h.chunk \in DOMAIN chunks
  /\ h.chunk_limit = chunks[h.chunk].limit
  /\ Contents(h.chunk) <= h.object_base
  /\ h.object_base <= chunks[h.chunk].limit

-----------------------------------------------------------------------------
(* C8 *)

\* C8 as claimed: a zero-length finalized object that no free has reached
\* is intact, and its address differs from that of every object finalized later.
C8_EmptyDistinct ==
  \A i \in 1..Len(objs) : \A j \in (i + 1)..Len(objs) :
    objs[i].len = 0 => Intact(objs[i]) /\ objs[j].addr # objs[i].addr

\* C8 as amended: a zero-length finalized object that no free has reached
\* is intact, and allocated_p holds of its address; an object finalized
\* later in another chunk has another address, and one finalized later in
\* the same chunk has an address that is not below it, and may be the same.
C8_EmptyValid ==
  \A i \in 1..Len(objs) :
    objs[i].len = 0 =>
      /\ Intact(objs[i])
      /\ _obstack_allocated_p(State, objs[i].addr)
      /\ \A j \in (i + 1)..Len(objs) :
           IF objs[j].chunk = objs[i].chunk
           THEN objs[j].addr >= objs[i].addr
           ELSE objs[j].addr # objs[i].addr

\* An object with bytes was finalized at the address of a zero-length
\* object finalized before it.
C8_Witness ==
  \E i \in 1..Len(objs) : \E j \in (i + 1)..Len(objs) :
    /\ objs[i].len = 0
    /\ objs[j].len > 0
    /\ objs[j].addr = objs[i].addr

-----------------------------------------------------------------------------
(* C9 *)

\* C9: a migration passes the old chunk to the free function and links the
\* new chunk to the chunk before it if and only if maybe_empty_object was
\* false and object_base was the aligned start of the old chunk; otherwise
\* the old chunk stays, linked as the prev of the new one.  And after a
\* migration allocated_p holds of every zero-length object not freed.
C9_Recycling ==
  Migrated =>
    LET old == last.h.chunk
        new == h.chunk
        before == IF Len(last.list) >= 2 THEN last.list[2] ELSE NULL
        only == /\ ~last.h.maybe_empty_object
                /\ last.h.object_base = AlignedStart(old, last.h.alignment_mask)
    IN /\ last.got = <<new>>
       /\ last.list # <<>> /\ last.list[1] = old
       /\ IF only
          THEN /\ last.freed = <<old>>
               /\ old \notin DOMAIN allocd
               /\ chunks[new].prev = before
               /\ ChunkList = <<new>> \o Tail(last.list)
          ELSE /\ last.freed = <<>>
               /\ old \in DOMAIN allocd
               /\ chunks[new].prev = old
               /\ ChunkList = <<new>> \o last.list
       /\ \A i \in 1..Len(objs) :
            objs[i].len = 0 => _obstack_allocated_p(State, objs[i].addr)

\* After init, a zero-length finish and a growth that migrated: the old
\* chunk, which holds nothing but the zero-length object, was kept.
C9_Witness ==
  /\ Migrated
  /\ nops = 2
  /\ Len(objs) = 1 /\ objs[1].len = 0
  /\ objs[1].addr = AlignedStart(objs[1].chunk, h.alignment_mask)
  /\ last.freed = <<>>

-----------------------------------------------------------------------------
(* C10 *)

\* C10: when a growth operation calls the failure handler, it calls it
\* once, obtains and releases no chunk, and leaves the control block, the
\* chunk list, the memory and so the growing object and the finalized
\* objects exactly as they were; the cursor invariant still holds.
C10_FailureKeepsState ==
  [][last'.handler > 0 =>
       /\ last'.op \in GrowthOps
       /\ last'.handler = 1
       /\ last'.got = <<>> /\ last'.freed = <<>>
       /\ h' = h /\ chunks' = chunks /\ allocd' = allocd /\ mem' = mem
       /\ objs' = objs /\ cur' = cur
       /\ C7_CursorInvariant']_vars

\* The failure handler was called by a growth of an object that had bytes,
\* with finalized objects in the stack.
C10_Witness ==
  /\ last.handler = 1
  /\ Len(cur) > 0
  /\ objs # <<>>

-----------------------------------------------------------------------------
(* C11 *)

\* The length the growth operation before this state asked room for.
LastLength == IF last.op = "grow0" THEN last.arg + 1 ELSE last.arg

\* The growth operation before this state found too little room and went
\* to _obstack_newchunk.
LastMigrating ==
  /\ last.op \in RoomOps
  /\ obstack_room(last.h) < LastLength

\* One of the three additions of the size computation, on sizes, exceeds
\* the largest size.
Overflows(obj_size, length, mask) ==
  LET sum1 == NewchunkSum1(obj_size, length)
      sum2 == NewchunkSum2(obj_size, length, mask)
  IN \/ obj_size + length >= SizeMod
     \/ sum1 + mask >= SizeMod
     \/ sum2 + (obj_size \div 8) + Headroom >= SizeMod

\* C11: when one of the additions of the size computation of a migration
\* overflows, the failure handler is called and the allocator is not.
C11_OverflowFails ==
  (/\ LastMigrating
   /\ Overflows(obstack_object_size(last.h), LastLength, last.h.alignment_mask))
    => last.handler = 1 /\ last.got = <<>>

-----------------------------------------------------------------------------
(* C12 *)

RECURSIVE SumOf(_, _)
\* The sum of f over the set S of its domain.
SumOf(f, S) ==
  IF S = {} THEN 0
  ELSE LET x == CHOOSE y \in S : TRUE IN f[x] + SumOf(f, S \ {x})

\* C12: memory_used is the sum of the sizes requested from the allocator
\* for the chunks obtained and not released.
C12_MemoryUsed ==
  ~last.aborted => _obstack_memory_used(State) = SumOf(allocd, DOMAIN allocd)

\* Of two chunks of different sizes a free released one.
C12_Witness ==
  /\ last.op = "free"
  /\ Len(last.list) = 2
  /\ Len(last.freed) = 1
  /\ allocd[h.chunk] # last.h.chunk_limit - last.h.chunk

-----------------------------------------------------------------------------
(* C13 *)

\* The copy before this state returned the address of a finalized object.
Copied == last.op \in {"copy", "copy0"} /\ last.handler = 0

\* The address the copy before this state returned.
CopyAddress == objs[Len(objs)].addr

\* The bytes given to the copy before this state.
CopyBytes == Data(nops - 1, last.arg)

\* C13 as claimed: the n bytes at the address a copy returned are the
\* bytes given, and copy0 left a zero byte after them.
C13_RoundTrip ==
  Copied =>
    /\ ReadBytes(mem, CopyAddress, last.arg) = CopyBytes
    /\ last.op = "copy0" => Read(mem, CopyAddress + last.arg) = 0

\* C13 as amended: the bytes given are at the address a copy returned
\* after the bytes the growing object had before, so at the address itself
\* when it had none, and copy0 left a zero byte after them; the object
\* finalized is that at the end of the list of finalized objects.
C13_RoundTripAfterGrown ==
  Copied =>
    LET k == obstack_object_size(last.h)
    IN /\ Len(objs) = Len(last.objs) + 1
       /\ Intact(objs[Len(objs)])
       /\ ReadBytes(mem, CopyAddress + k, last.arg) = CopyBytes
       /\ last.op = "copy0" => Read(mem, CopyAddress + k + last.arg) = 0
       /\ h.object_base >= CopyAddress + k + LastLength

\* A copy that migrated the object grown before it to a new chunk.
C13_Witness ==
  /\ Copied
  /\ obstack_object_size(last.h) > 0
  /\ last.got # <<>>

-----------------------------------------------------------------------------
(* C14 *)

\* No chunk of the chunk list contains obj, by the test of the walk of
\* _obstack_free.
Foreign(obj) ==
  \A c \in Linked : c >= obj \/ chunks[c].limit < obj

\* C14: obstack_free (h, obj) with obj not NULL and in no chunk of the
\* chunk list ends in abort ().
C14_ForeignAborts ==
  [][(last'.op = "free_any" /\ Foreign(last'.arg)) => last'.aborted]_vars

\* abort () was called by a free of an address that none of two chunks
\* contains, after both went through the free function.
C14_Witness ==
  /\ last.op = "free_any"
  /\ last.aborted
  /\ Len(last.list) = 2
  /\ last.freed = last.list

-----------------------------------------------------------------------------
(* C15 *)

\* C15: obstack_free (h, NULL) passes every chunk of the chunk list to the
\* free function, once each, calls abort () not, and leaves chunk,
\* object_base, next_free and chunk_limit as they were, referring to
\* chunks released.
C15_FullFree ==
  last.op = "free_null" =>
    /\ last.freed = last.list
    /\ \A i, j \in 1..Len(last.freed) : last.freed[i] = last.freed[j] => i = j
    /\ ~last.aborted
    /\ allocd = <<>> /\ chunks = <<>>
    /\ h.chunk = last.h.chunk
    /\ h.object_base = last.h.object_base
    /\ h.next_free = last.h.next_free
    /\ h.chunk_limit = last.h.chunk_limit
    /\ h.chunk \notin DOMAIN allocd

\* obstack_free (h, NULL) of a stack of two chunks with a finalized object.
C15_Witness ==
  /\ last.op = "free_null"
  /\ Len(last.freed) = 2
  /\ last.objs # <<>>

-----------------------------------------------------------------------------
(* C16 *)

\* C16: after obstack_free (h, NULL) and _obstack_begin with the same chunk
\* size and alignment, the stack is as one begun for the first time: size
\* 0, empty, one chunk with prev NULL, maybe_empty_object false,
\* memory_used the chunk size, no other chunk handed out.
C16_BegunAgain ==
  (last.op = "init" /\ nops > 0) =>
    /\ obstack_object_size(h) = 0
    /\ obstack_empty_p(State)
    /\ ChunkList = <<h.chunk>>
    /\ chunks[h.chunk].prev = NULL
    /\ ~h.maybe_empty_object
    /\ _obstack_memory_used(State) = h.chunk_size
    /\ DOMAIN allocd = {h.chunk}
    /\ h.chunk_size = last.h.chunk_size
    /\ h.alignment_mask = last.h.alignment_mask
    /\ objs = <<>> /\ cur = <<>>
    /\ State = [Begin(h.chunk_size, h.alignment_mask + 1, h.chunk) EXCEPT !.got = <<>>]

\* A stack begun again at another address than it had when it was freed.
C16_Witness ==
  /\ last.op = "init"
  /\ nops >= 3
  /\ h.chunk # last.h.chunk

-----------------------------------------------------------------------------
(* C17 *)

\* C17: after a free of the oldest finalized object not freed, which
\* leaves none, obstack_empty_p holds.
C17_EmptyAfterFree ==
  (last.op = "free" /\ ~last.aborted /\ objs = <<>>) => obstack_empty_p(State)

-----------------------------------------------------------------------------
(* C18 *)

\* C18: obstack_free (h, obj), obj not NULL, calls abort () exactly when
\* _obstack_allocated_p (h, obj) is false before it.
C18_AllocatedAgreesWithFree ==
  [][last'.op = "free_any" =>
       (_obstack_allocated_p(State, last'.arg) <=> ~last'.aborted)]_vars

\* A free of the address of the current chunk itself, which is the limit
\* of an older chunk: the older chunk contains it.
C18_Witness ==
  /\ last.op = "free_any"
  /\ last.arg = last.h.chunk
  /\ ~last.aborted
  /\ last.freed = <<last.h.chunk>>

-----------------------------------------------------------------------------
(* C19 *)

\* C19: the queries leave the control block, the chunks, the blocks handed
\* out and the memory as they were; obstack_finish calls neither the
\* allocator nor the free function and leaves the chunks, the chunk list,
\* chunk and chunk_limit as they were.
C19_QueriesAndFinishFrame ==
  [][/\ last'.op = "queries" =>
          /\ h' = h /\ chunks' = chunks /\ allocd' = allocd /\ mem' = mem
          /\ last'.got = <<>> /\ last'.freed = <<>>
          /\ objs' = objs /\ cur' = cur
     /\ last'.op = "finish" =>
          /\ last'.got = <<>> /\ last'.freed = <<>>
          /\ chunks' = chunks /\ allocd' = allocd
          /\ ChunkList' = ChunkList
          /\ h'.chunk = h.chunk
          /\ h'.chunk_limit = h.chunk_limit]_vars

\* The queries of a stack of two chunks that is not empty, after a finish
\* of an object that was migrated.
C19_Witness ==
  /\ last.op = "queries"
  /\ last.arg[5] = FALSE
  /\ last.arg[6] > h.chunk_size
  /\ last.arg[7] = TRUE
  /\ Len(ChunkList) = 2
  /\ \E i \in 1..Len(objs) : objs[i].len > 0 /\ objs[i].chunk = h.chunk

-----------------------------------------------------------------------------
(* C20 *)

\* C20: when obstack_printf or obstack_vprintf returns, with L the length
\* of the formatted output, it has appended no more bytes than buf holds,
\* has read no byte past buf, and has returned L.
C20_PrintfTruncates ==
  (last.op \in {"printf", "vprintf"} /\ last.handler = 0) =>
    /\ obstack_object_size(h) - obstack_object_size(last.h) <= BufSize
    /\ last.arg[3] <= BufSize
    /\ last.arg[2] = last.arg[1]

-----------------------------------------------------------------------------
(* C21 *)

\* The chunks of the chunk list that the test of the walk of _obstack_free
\* finds to contain the address a.
Containing(a) == {c \in Linked : ~NotInChunk(c, chunks[c].limit, a)}

\* The finalized object o has no bytes and lies at the very limit of its
\* chunk, where a chunk of the chunk list begins.
AtAliasedBoundary(o) ==
  /\ o.len = 0
  /\ o.chunk \in DOMAIN chunks
  /\ o.addr = chunks[o.chunk].limit
  /\ o.addr \in Linked

\* C21: the address of every finalized object not freed passes the test of
\* the walk of _obstack_free for exactly one chunk of the chunk list, the
\* chunk it was finalized in, and free (h, a) leaves that chunk the current
\* one without abort; so also for a zero-length object at the very limit of
\* a chunk where another chunk begins.
C21_UniqueChunk ==
  \A i \in 1..Len(objs) :
    LET f == obstack_free(State, objs[i].addr)
    IN /\ Containing(objs[i].addr) = {objs[i].chunk}
       /\ ~f.aborted
       /\ f.h.chunk = objs[i].chunk

\* A zero-length object lies at the limit of its chunk, and another chunk
\* of the chunk list begins at that address.
C21_Witness == \E i \in 1..Len(objs) : AtAliasedBoundary(objs[i])

-----------------------------------------------------------------------------
(* C22 *)

\* The last operation was a free of the address equal to the limit of the
\* chunk that was the current one.
FreedAtLimit == last.op = "free_any" /\ last.arg = last.h.chunk_limit

\* C22 as claimed: an address equal to the limit of a chunk is outside that
\* chunk for _obstack_allocated_p and for free: free (h, obj) with obj the
\* limit of the current chunk does not end with the current chunk selected.
C22_LimitOutside ==
  FreedAtLimit =>
    /\ last.aborted \/ h.chunk # last.h.chunk
    /\ ~last.aborted => ~_obstack_allocated_p(State, chunks[last.h.chunk].limit)

\* C22 as amended: an address equal to the limit of a chunk is inside that
\* chunk for the walks of _obstack_free and _obstack_allocated_p, and only
\* the inline test of the macro leaves it out: _obstack_allocated_p is
\* true of the limit of every chunk of the chunk list, and free (h, obj)
\* with obj the limit of the current chunk releases no chunk, does not
\* abort, and leaves the current chunk selected with object_base and
\* next_free at obj.
C22_LimitInside ==
  /\ ~last.aborted =>
       \A c \in Linked : _obstack_allocated_p(State, chunks[c].limit)
  /\ FreedAtLimit =>
       /\ ~last.aborted
       /\ last.freed = <<>>
       /\ h.chunk = last.h.chunk
       /\ h.chunk_limit = last.h.chunk_limit
       /\ h.object_base = last.arg
       /\ h.next_free = last.arg

\* A free of the limit of the current chunk, an older chunk being in the
\* chunk list and the cursor having been below the limit.
C22_Witness ==
  /\ FreedAtLimit
  /\ Len(last.list) >= 2
  /\ last.h.next_free < last.h.chunk_limit

-----------------------------------------------------------------------------
(* C23 *)

\* The zero-length objects that were finalized at the address the last
\* operation was given, each at the very limit of its chunk.
AliasedTargets ==
  {o \in {last.objs[i] : i \in 1..Len(last.objs)} :
     /\ o.len = 0
     /\ o.addr = last.arg
     /\ o.chunk \in DOMAIN chunks
     /\ chunks[o.chunk].limit = last.arg}

\* The last operation was a free of the address of a zero-length object
\* finalized at the very limit of its chunk, the current chunk, a newer
\* one, beginning at that address.
FreedAliased ==
  /\ last.op = "free_any"
  /\ last.arg = last.h.chunk
  /\ AliasedTargets # {}

\* C23 as claimed: free (h, obj), obj being the limit of an older chunk and
\* the address of the adjacent newer chunk, keeps the newer chunk as the
\* current one.
C23_NewerKept ==
  FreedAliased => (~last.aborted /\ h.chunk = last.arg)

\* C23 as amended: free (h, obj), obj being the limit of an older chunk and
\* the address of the adjacent newer chunk, resolves obj to the older
\* chunk: the newer chunk and every chunk installed after the older one are
\* released, and the older chunk is the current one, with object_base and
\* next_free at its limit and maybe_empty_object set.
C23_OlderKept ==
  FreedAliased =>
    /\ ~last.aborted
    /\ \A o \in AliasedTargets : h.chunk = o.chunk
    /\ h.chunk # last.arg
    /\ last.arg \notin DOMAIN allocd
    /\ last.freed = SubSeq(last.list, 1, Place(last.list, h.chunk) - 1)
    /\ \E i \in 1..Len(last.freed) : last.freed[i] = last.arg
    /\ h.object_base = last.arg
    /\ h.next_free = last.arg
    /\ h.chunk_limit = last.arg
    /\ h.maybe_empty_object

\* A zero-length object at the limit of its chunk was freed, the chunk
\* that began at its address being the current one then.
C23_Witness == FreedAliased /\ Len(last.list) >= 2

-----------------------------------------------------------------------------
(* C24 *)

\* C24: the finalized objects not freed lie between the contents and the
\* limit of their chunks; of two in one chunk, the one finalized first ends
\* at or below the address of the other; and the growing object lies in the
\* current chunk, from its contents on and up to its limit, at or above the
\* end of every finalized object of that chunk.
C24_Layout ==
  /\ h.chunk \in DOMAIN chunks
  /\ Contents(h.chunk) <= h.object_base
  /\ h.object_base <= h.next_free
  /\ h.next_free <= chunks[h.chunk].limit
  /\ \A i \in 1..Len(objs) :
       LET o == objs[i]
       IN /\ o.chunk \in DOMAIN chunks
          /\ Contents(o.chunk) <= o.addr
          /\ o.addr + o.len <= chunks[o.chunk].limit
          /\ o.chunk = h.chunk => o.addr + o.len <= h.object_base
          /\ \A j \in (i + 1)..Len(objs) :
               objs[j].chunk = o.chunk => o.addr + o.len <= objs[j].addr

\* The current chunk holds two finalized objects, the later one with
\* bytes, and a growing object with bytes.
C24_Witness ==
  /\ obstack_object_size(h) > 0
  /\ \E i \in 1..Len(objs) : \E j \in (i + 1)..Len(objs) :
       /\ objs[i].chunk = h.chunk
       /\ objs[j].chunk = h.chunk
       /\ objs[j].len > 0

-----------------------------------------------------------------------------
(* C25 *)

\* The last operation was a finish of an object of no bytes.
EmptyFinish == last.op = "finish" /\ obstack_object_size(last.h) = 0

\* The last operation was a free whose walk released a chunk.
Walked == last.op \in {"free", "free_null"} /\ last.freed # <<>>

\* The last operation moved the growing object to a new chunk.
MigrationDone ==
  last.op \in {"1grow", "copy", "copy0"} /\ last.got # <<>> /\ last.handler = 0

\* C25: if the current chunk holds a zero-length finalized object not
\* freed, maybe_empty_object is set. A finish of an object of no bytes and
\* a free whose walk released a chunk leave the flag set, and nothing else
\* sets it; _obstack_begin and a completed migration leave it clear, and
\* nothing else clears it; a free that released no chunk leaves it as it was.
C25_MaybeEmptyObject ==
  /\ (\E i \in 1..Len(objs) : objs[i].len = 0 /\ objs[i].chunk = h.chunk)
       => h.maybe_empty_object
  /\ EmptyFinish => h.maybe_empty_object
  /\ Walked => h.maybe_empty_object
  /\ MigrationDone => ~h.maybe_empty_object
  /\ last.op = "init" => ~h.maybe_empty_object
  /\ (h.maybe_empty_object /\ ~last.h.maybe_empty_object) => (EmptyFinish \/ Walked)
  /\ (~h.maybe_empty_object /\ last.h.maybe_empty_object) =>
       (MigrationDone \/ last.op = "init")
  /\ (last.op = "free" /\ last.freed = <<>>) =>
       h.maybe_empty_object = last.h.maybe_empty_object

\* The walk of a free has released a chunk and come to a chunk that holds
\* a zero-length object not freed, the flag having been clear.
C25_Witness ==
  /\ Walked
  /\ ~last.h.maybe_empty_object
  /\ \E i \in 1..Len(objs) : objs[i].len = 0 /\ objs[i].chunk = h.chunk

-----------------------------------------------------------------------------
(* C26 *)

\* The least multiple of m that is not below x.
RoundUp(x, m) == ((x + m - 1) \div m) * m

\* next_free before the last operation, rounded up to the alignment.
LastAligned == RoundUp(last.h.next_free, last.h.alignment_mask + 1)

\* The last operation was a finish whose padding did not fit in the chunk.
ClampedFinish == last.op = "finish" /\ LastAligned > last.h.chunk_limit

\* The growth of an object in state s was given the block a by the
\* allocator, moved to it, and released no chunk, the chunk that was the
\* current one being the chunk before the new one; or it was given no
\* block, and the failure handler was called.
MigratedKeeping(s, a) ==
  IF a = NULL
  THEN s.handler > 0
  ELSE /\ s.handler = 0
       /\ s.got = <<a>>
       /\ s.freed = <<>>
       /\ s.h.chunk = a
       /\ s.chunks[a].prev = h.chunk
       /\ h.chunk \in DOMAIN s.allocd

\* C26: obstack_finish returns the object base it found, and leaves
\* object_base and next_free at the lesser of chunk_limit and the old
\* next_free rounded up to a multiple of alignment_mask + 1: the growing
\* object is empty and next_free is not above chunk_limit. When the
\* rounded address was above chunk_limit, no room is left, and a growth by
\* one byte or more that follows calls the allocator and, given a block,
\* moves to it and keeps the old chunk.
C26_FinishPostcondition ==
  last.op = "finish" =>
    /\ last.arg = last.h.object_base
    /\ objs[Len(objs)].addr = last.h.object_base
    /\ h.object_base = IF LastAligned < last.h.chunk_limit
                       THEN LastAligned ELSE last.h.chunk_limit
    /\ h.next_free = h.object_base
    /\ obstack_object_size(h) = 0
    /\ h.next_free <= h.chunk_limit
    /\ ClampedFinish =>
         /\ obstack_room(h) = 0
         /\ Returns(State, 1) # {NULL}
         /\ \A a \in Returns(State, 1) :
              MigratedKeeping(obstack_1grow(State, 1, a), a)
         /\ \A n \in GrowLens : \A a \in Returns(State, n) :
              MigratedKeeping(obstack_grow(State, Data(nops, n), a), a)

\* A finish of an object with bytes whose padding did not fit in the chunk.
C26_Witness == ClampedFinish /\ obstack_object_size(last.h) > 0

-----------------------------------------------------------------------------
(* C27 *)

\* The elements of the sequence seq.
Range(seq) == {seq[i] : i \in 1..Len(seq)}

\* No element occurs twice in the sequence seq.
NoRepeat(seq) == \A i, j \in 1..Len(seq) : seq[i] = seq[j] => i = j

\* C27: the chunks linked from chunk through prev form a list without
\* repetition that ends with a chunk whose prev is null, and they are
\* exactly the blocks obtained from the allocator and not released. The
\* blocks an operation passed to the free function were chunks of the list
\* before it, each passed once and none of them handed out after it, and
\* the blocks it obtained are in the list.
C27_ChunkOwnership ==
  /\ ChunkList # <<>>
  /\ NoRepeat(ChunkList)
  /\ Linked \subseteq DOMAIN chunks
  /\ chunks[ChunkList[Len(ChunkList)]].prev = NULL
  /\ Linked = DOMAIN allocd
  /\ DOMAIN chunks = DOMAIN allocd
  /\ NoRepeat(last.freed)
  /\ Range(last.freed) \subseteq Range(last.list)
  /\ Range(last.freed) \cap DOMAIN allocd = {}
  /\ Range(last.got) \subseteq Linked

\* An operation obtained a chunk and released the chunk that was the
\* current one, an older chunk staying in the list.
C27_Witness ==
  /\ last.got # <<>>
  /\ last.freed # <<>>
  /\ Len(ChunkList) >= 2

-----------------------------------------------------------------------------
(* C28 *)

\* The addresses above the current chunk's address and below chunk_limit.
InsideCurrent == (h.chunk + 1)..(h.chunk_limit - 1)

\* C28: for every address above the address of the current chunk and below
\* chunk_limit, the macro obstack_free, which takes its inline branch,
\* leaves the state that _obstack_free leaves: the same control block,
\* chunk, chunk_limit and maybe_empty_object included, the same chunk
\* headers, blocks and memory, no chunk released and no abort.
C28_FastPathRefines ==
  LET s == State
  IN \A obj \in InsideCurrent :
       LET fast == obstack_free(s, obj)
       IN /\ fast = _obstack_free(s, obj)
          /\ fast.h = [h EXCEPT !.object_base = obj, !.next_free = obj]
          /\ fast.freed = <<>>
          /\ ~fast.aborted

\* A free took the inline branch of the macro, maybe_empty_object being
\* clear and two chunks being in the list.
C28_Witness ==
  /\ last.op = "free"
  /\ last.h.chunk < last.arg
  /\ last.arg < last.h.chunk_limit
  /\ ~last.h.maybe_empty_object
  /\ Len(ChunkList) >= 2
  /\ h = [last.h EXCEPT !.object_base = last.arg, !.next_free = last.arg]


=============================================================================
